---- MODULE Spec2Model ----
(***************************************************************************)
(* NovelTextToJsonDatasetGenerator.py: text files are split into chunks of *)
(* bounded size (process_lines), consecutive chunks are paired into        *)
(* records (convert_to_records), the per-file records of a directory are   *)
(* computed by a process pool and written to dataset.json                  *)
(* (generate_json_dataset), after a file was uploaded and polled until the *)
(* remote service reports it ACTIVE (main).                                *)
(*                                                                         *)
(* A string is a sequence of characters; len(s) is Len(s), s + t is s \o t *)
(* and the empty string is <<>>.                                           *)
(*                                                                         *)
(* Two specifications:                                                     *)
(*   SpecLines  the two pure functions, applied to every sequence of       *)
(*              lines and every max_size within the bounds;                *)
(*   Spec       one run of the module: import, main(), the pool workers.   *)
(***************************************************************************)
EXTENDS Naturals, Integers, Sequences, FiniteSets, TLC

VARIABLES
    pc,          \* position of the main process (Spec) or of the function run (SpecLines)
    lines,       \* process_lines: the argument lines
    max_size,    \* process_lines: the argument max_size
    sections,    \* the list returned by process_lines
    records,     \* the list built by convert_to_records / generate_json_dataset
    hasKey,      \* "GEMINI_API_KEY" in os.environ
    listing,     \* os.listdir(input_dir): the directory entries, in listing order
    exc,         \* the exception that ended the run, "none" while there is none
    logged,      \* the messages printed by log(), in order
    observed,    \* the states returned by genai.get_file so far
    sleeps,      \* number of time.sleep(10) calls made
    text_files,  \* generate_json_dataset: the qualifying entries (indices into listing)
    task,        \* state of each pool task, one per element of text_files
    results,     \* value slot of each pool task
    completion,  \* the pool tasks in the order they completed
    artifact,    \* content of dataset.json
    writes       \* number of times dataset.json was opened for writing

vars == <<pc, lines, max_size, sections, records, hasKey, listing, exc, logged,
          observed, sleeps, text_files, task, results, completion, artifact, writes>>

runVars == <<hasKey, listing, exc, logged, observed, sleeps, text_files, task,
             results, completion, artifact, writes>>

-----------------------------------------------------------------------------
(* Bounds *)

MaxLines == 4      \* longest line sequence given to process_lines in SpecLines
MaxLineLen == 2    \* longest line in SpecLines
MaxSize == 4       \* largest max_size in SpecLines
MaxFiles == 3      \* most entries in the listed directory
MaxPolls == 3      \* most get_file observations in one run
NumWorkers == 2    \* processes of Pool(), os.cpu_count()

-----------------------------------------------------------------------------
(* Program constants *)

DefaultMaxSize == 512
SleepInterval == 10

\* the instruction literal of convert_to_records (a Chinese sentence in the
\* source; only its being one fixed string matters)
INSTRUCTION == "instruction"

NoArtifact == <<"absent">>

-----------------------------------------------------------------------------
(* Strings and lists *)

Chars == {"a", "b"}

Rep(c, n) == [i \in 1..n |-> c]

RECURSIVE Concat(_)
\* "".join(seqs), also the flattening comprehension of generate_json_dataset
Concat(seqs) == IF seqs = <<>> THEN <<>> ELSE Head(seqs) \o Concat(Tail(seqs))

RECURSIVE PrefixLen(_, _)
\* len("".join(seqs[:j]))
PrefixLen(seqs, j) == IF j = 0 THEN 0 ELSE PrefixLen(seqs, j - 1) + Len(seqs[j])

-----------------------------------------------------------------------------
(* process_lines *)

\* variant: the comparison is <= instead of <
process_lines_step_le(st, line, size) ==
    IF Len(st.section) + Len(line) <= size
    THEN [sections |-> st.sections, section |-> st.section \o line]
    ELSE [sections |-> Append(st.sections, st.section), section |-> line]

\* variant: the buffer is closed one character early
process_lines_step_early(st, line, size) ==
    IF Len(st.section) + Len(line) < size - 1
    THEN [sections |-> st.sections, section |-> st.section \o line]
    ELSE [sections |-> Append(st.sections, st.section), section |-> line]

\* one iteration of the for loop; st is the pair (sections, section)
process_lines_step(st, line, size) ==
    IF Len(st.section) + Len(line) < size
    THEN [sections |-> st.sections, section |-> st.section \o line]
    ELSE [sections |-> Append(st.sections, st.section), section |-> line]

RECURSIVE process_lines_loop(_, _, _, _)
process_lines_loop(st, ls, i, size) ==
    IF i > Len(ls) THEN st
    ELSE process_lines_loop(process_lines_step(st, ls[i], size), ls, i + 1, size)

\* variant: the buffer left after the last line is not emitted
process_lines_flush_dropped(st) == st.sections

\* the trailing "if section: sections.append(section)"
process_lines_flush(st) ==
    IF st.section # <<>> THEN Append(st.sections, st.section) ELSE st.sections

process_lines(ls, size) ==
    process_lines_flush(
        process_lines_loop([sections |-> <<>>, section |-> <<>>], ls, 1, size))

-----------------------------------------------------------------------------
(* convert_to_records *)

RECURSIVE range(_, _, _)
\* list(range(start, stop, step)) for step > 0
range(start, stop, step) ==
    IF start >= stop THEN <<>> ELSE <<start>> \o range(start + step, stop, step)

\* variant: the loop steps by one, pairing every chunk with its successor
convert_to_records_step1(secs) ==
    LET idx == range(0, Len(secs) - 1, 1)
    IN  [k \in 1..Len(idx) |->
            [instruction |-> INSTRUCTION,
             input |-> secs[idx[k] + 1],
             output |-> secs[idx[k] + 2]]]

\* sections[i] of the source is secs[i + 1] here: TLA+ sequences start at 1
convert_to_records(secs) ==
    LET idx == range(0, Len(secs) - 1, 2)
    IN  [k \in 1..Len(idx) |->
            [instruction |-> INSTRUCTION,
             input |-> secs[idx[k] + 1],
             output |-> secs[idx[k] + 2]]]

-----------------------------------------------------------------------------
(* SpecLines: the pure functions on bounded inputs *)

LineSet == UNION {[1..n -> Chars] : n \in 1..MaxLineLen}
LineSeqs == UNION {[1..n -> LineSet] : n \in 0..MaxLines}

InitLines ==
    /\ pc = "lines"
    /\ lines \in LineSeqs
    /\ max_size \in 1..MaxSize
    /\ sections = <<>>
    /\ records = <<>>
    /\ hasKey = TRUE
    /\ listing = <<>>
    /\ exc = "none"
    /\ logged = <<>>
    /\ observed = <<>>
    /\ sleeps = 0
    /\ text_files = <<>>
    /\ task = <<>>
    /\ results = <<>>
    /\ completion = <<>>
    /\ artifact = NoArtifact
    /\ writes = 0

CallProcessLines ==
    /\ pc = "lines"
    /\ sections' = process_lines(lines, max_size)
    /\ pc' = "sections"
    /\ UNCHANGED <<lines, max_size, records>>
    /\ UNCHANGED runVars

CallConvertToRecords ==
    /\ pc = "sections"
    /\ records' = convert_to_records(sections)
    /\ pc' = "records"
    /\ UNCHANGED <<lines, max_size, sections>>
    /\ UNCHANGED runVars

NextLines == CallProcessLines \/ CallConvertToRecords

SpecLines == InitLines /\ [][NextLines]_vars

-----------------------------------------------------------------------------
(* The environment of a run: the directory, the files, the remote service *)

\* file names: one that ends with ".txt" and two that do not
TxtName == <<"n", ".", "t", "x", "t">>
OtherNames == {<<"n", ".", "m", "d">>, <<"t", "x", "t">>}

\* str.endswith
endswith(name, suffix) ==
    /\ Len(name) >= Len(suffix)
    /\ SubSeq(name, Len(name) - Len(suffix) + 1, Len(name)) = suffix

\* the text of a file, as file.readlines() returns it; text 0 is a file that
\* cannot be opened or decoded
Text(t) ==
    CASE t = 1 -> <<Rep("a", 300), Rep("b", 300), Rep("c", 100), Rep("d", 500)>>
      [] t = 2 -> <<Rep("e", 600), Rep("f", 200), Rep("g", 400)>>
      [] t = 3 -> <<Rep("h", 10)>>
      [] OTHER -> <<>>

Readable(entry) == entry.text # 0

Entries ==
    {[name |-> TxtName, text |-> t] : t \in 0..3}
        \cup {[name |-> n, text |-> 0] : n \in OtherNames}

Listings == UNION {[1..n -> Entries] : n \in 0..MaxFiles}

\* the names of genai's File.State
FileStates == {"STATE_UNSPECIFIED", "PROCESSING", "ACTIVE", "FAILED"}

Msg(m, a) == [msg |-> m, arg |-> a]

-----------------------------------------------------------------------------
(* The run: module import, main(), the pool workers *)

Init ==
    /\ pc = "import"
    /\ hasKey \in BOOLEAN
    /\ listing \in Listings
    /\ exc = "none"
    /\ logged = <<>>
    /\ observed = <<>>
    /\ sleeps = 0
    /\ text_files = <<>>
    /\ task = <<>>
    /\ results = <<>>
    /\ completion = <<>>
    /\ records = <<>>
    /\ artifact = NoArtifact
    /\ writes = 0
    /\ lines = <<>>
    /\ max_size = DefaultMaxSize
    /\ sections = <<>>

\* genai.configure(api_key=os.environ["GEMINI_API_KEY"]) at import: a missing
\* key raises KeyError, outside any try
Configure ==
    /\ pc = "import"
    /\ IF hasKey
       THEN pc' = "main" /\ exc' = exc
       ELSE pc' = "error" /\ exc' = "KeyError"
    /\ UNCHANGED <<lines, max_size, sections, records, hasKey, listing, logged,
                   observed, sleeps, text_files, task, results, completion,
                   artifact, writes>>

\* upload_to_gemini, called by main: genai.upload_file returns or raises
upload_to_gemini ==
    /\ pc = "main"
    /\ \E ok \in BOOLEAN :
          IF ok
          THEN /\ logged' = logged \o <<Msg("Uploading file", 0), Msg("Uploaded file", 0)>>
               /\ pc' = "wait"
               /\ exc' = exc
          ELSE /\ logged' = logged \o <<Msg("Uploading file", 0),
                                        Msg("Failed to upload file", 0)>>
               /\ pc' = "error"
               /\ exc' = "UploadError"
    /\ UNCHANGED <<lines, max_size, sections, records, hasKey, listing,
                   observed, sleeps, text_files, task, results, completion,
                   artifact, writes>>

\* wait_for_files_active([uploaded_file]) up to the first get_file
wait_for_files_active ==
    /\ pc = "wait"
    /\ logged' = Append(logged, Msg("Waiting for file processing...", 0))
    /\ pc' = "poll"
    /\ UNCHANGED <<lines, max_size, sections, records, hasKey, listing, exc,
                   observed, sleeps, text_files, task, results, completion,
                   artifact, writes>>

\* variant: the elif on "FAILED" is missing its raise and leaves the loop
poll_outcome_failed_breaks(state_name) ==
    IF state_name \in {"ACTIVE", "FAILED"} THEN "break" ELSE "sleep"

\* variant: only "PROCESSING" keeps the loop waiting
poll_outcome_only_processing(state_name) ==
    IF state_name = "PROCESSING" THEN "sleep"
    ELSE IF state_name = "FAILED" THEN "raise"
    ELSE "break"

\* the if / elif of the polling loop on file_status.state.name
poll_outcome(state_name) ==
    IF state_name = "ACTIVE" THEN "break"
    ELSE IF state_name = "FAILED" THEN "raise"
    ELSE "sleep"

\* variant: the sleep comes before the state is looked at
time_sleep_first(outcome, n) == n + 1

\* the time.sleep(10) that ends an iteration neither broken nor raised out of
time_sleep(outcome, n) == IF outcome = "sleep" THEN n + 1 ELSE n

\* one iteration of "while True": get_file, then break, raise, or log and sleep.
\* files has one element, so the break ends the for loop and the function.
Poll ==
    /\ pc = "poll"
    /\ Len(observed) < MaxPolls
    /\ \E state_name \in FileStates :
          LET outcome == poll_outcome(state_name)
          IN  /\ observed' = Append(observed, state_name)
              /\ sleeps' = time_sleep(outcome, sleeps)
              /\ CASE outcome = "break" ->
                        /\ logged' = logged \o <<Msg("File is now active.", 0),
                                                 Msg("All files are ready.", 0)>>
                        /\ pc' = "generate"
                        /\ exc' = exc
                   [] outcome = "raise" ->
                        /\ logged' = logged
                        /\ pc' = "error"
                        /\ exc' = "FileFailed"
                   [] OTHER ->
                        /\ logged' = Append(logged, Msg("File is still processing...", 0))
                        /\ pc' = "poll"
                        /\ exc' = exc
    /\ UNCHANGED <<lines, max_size, sections, records, hasKey, listing,
                   text_files, task, results, completion, artifact, writes>>

\* the list comprehension over os.listdir(input_dir): the positions in the
\* listing of the names that end with ".txt", in listing order
TextFiles(ls) ==
    LET F[i \in 0..Len(ls)] ==
            IF i = 0 THEN <<>>
            ELSE IF endswith(ls[i].name, <<".", "t", "x", "t">>)
                 THEN Append(F[i - 1], i)
                 ELSE F[i - 1]
    IN  F[Len(ls)]

\* generate_json_dataset up to pool.map: one task per text file, in order
generate_json_dataset ==
    /\ pc = "generate"
    /\ text_files' = TextFiles(listing)
    /\ logged' = logged \o <<Msg("Generating JSON dataset from directory", 0),
                             Msg("Found text files", Len(text_files')),
                             Msg("Starting multiprocessing pool for file processing...", 0)>>
    /\ task' = [i \in 1..Len(text_files') |-> "queued"]
    /\ results' = [i \in 1..Len(text_files') |-> <<>>]
    /\ pc' = "map"
    /\ UNCHANGED <<lines, max_size, sections, records, hasKey, listing, exc,
                   observed, sleeps, completion, artifact, writes>>

Running == {i \in DOMAIN task : task[i] = "running"}
Queued == {i \in DOMAIN task : task[i] = "queued"}

\* a free worker takes the next task off the queue and enters
\* process_single_file and read_text_file
TaskStart(i) ==
    /\ pc = "map"
    /\ i \in Queued
    /\ \A j \in Queued : i <= j
    /\ Cardinality(Running) < NumWorkers
    /\ task' = [task EXCEPT ![i] = "running"]
    /\ logged' = logged \o <<Msg("Processing file", i), Msg("Reading file", i)>>
    /\ UNCHANGED <<pc, lines, max_size, sections, records, hasKey, listing, exc,
                   observed, sleeps, text_files, results, completion, artifact,
                   writes>>

\* process_single_file after a successful read: process_lines with the
\* default max_size, then convert_to_records
process_single_file(entry) ==
    convert_to_records(process_lines(Text(entry.text), DefaultMaxSize))

\* the worker's read succeeds and the file's records are the task's value, or
\* the read fails, read_text_file logs and re-raises, and the task fails
TaskFinish(i) ==
    /\ pc = "map"
    /\ i \in Running
    /\ LET entry == listing[text_files[i]]
       IN  IF Readable(entry)
           THEN /\ results' = [results EXCEPT ![i] = process_single_file(entry)]
                /\ task' = [task EXCEPT ![i] = "done"]
                /\ logged' = logged \o
                      <<Msg("File read successfully", i),
                        Msg("Processing lines into chunks...", i),
                        Msg("Lines processed into chunks", i),
                        Msg("Converting chunks to JSON records...", i),
                        Msg("Converted records", i),
                        Msg("File processed", i)>>
           ELSE /\ results' = results
                /\ task' = [task EXCEPT ![i] = "failed"]
                /\ logged' = Append(logged, Msg("Error reading file", i))
    /\ completion' = Append(completion, i)
    /\ UNCHANGED <<pc, lines, max_size, sections, records, hasKey, listing, exc,
                   observed, sleeps, text_files, artifact, writes>>

\* variant: the values in the order the tasks completed (imap_unordered)
pool_map_unordered(values, order) == [k \in 1..Len(order) |-> values[order[k]]]

\* the list pool.map returns: the task values by position
pool_map(values, order) == values

\* pool.map returns once every task has completed: it re-raises a task's
\* exception, or returns the values and the records are flattened
MapReturn ==
    /\ pc = "map"
    /\ \A i \in DOMAIN task : task[i] \in {"done", "failed"}
    /\ IF \E i \in DOMAIN task : task[i] = "failed"
       THEN /\ pc' = "error"
            /\ exc' = "ReadError"
            /\ UNCHANGED <<records, logged>>
       ELSE /\ records' = Concat(pool_map(results, completion))
            /\ logged' = Append(logged, Msg("All files processed", Len(records')))
            /\ pc' = "write"
            /\ exc' = exc
    /\ UNCHANGED <<lines, max_size, sections, hasKey, listing, observed, sleeps,
                   text_files, task, results, completion, artifact, writes>>

\* open(output_file, 'w') and json.dump(records), then return
WriteDataset ==
    /\ pc = "write"
    /\ artifact' = records
    /\ writes' = writes + 1
    /\ logged' = logged \o <<Msg("Writing records to JSON file", 0),
                             Msg("JSON dataset saved", 0)>>
    /\ pc' = "done"
    /\ UNCHANGED <<lines, max_size, sections, records, hasKey, listing, exc,
                   observed, sleeps, text_files, task, results, completion>>

Next ==
    \/ Configure
    \/ upload_to_gemini
    \/ wait_for_files_active
    \/ Poll
    \/ generate_json_dataset
    \/ \E i \in 1..MaxFiles : TaskStart(i)
    \/ \E i \in 1..MaxFiles : TaskFinish(i)
    \/ MapReturn
    \/ WriteDataset

Spec == Init /\ [][Next]_vars

-----------------------------------------------------------------------------
(* Properties of process_lines and convert_to_records (SpecLines) *)

Packed == pc \in {"sections", "records"}

\* the number of lines that make up the first k chunks: the j with
\* len("".join(lines[:j])) = len("".join(sections[:k])); lines are not empty,
\* so there is at most one
Cut(k) ==
    CHOOSE j \in 0..Len(lines) : PrefixLen(lines, j) = PrefixLen(sections, k)

\* every chunk boundary falls on a line boundary
NoLineSplit ==
    \A k \in 0..Len(sections) :
        \E j \in 0..Len(lines) : PrefixLen(lines, j) = PrefixLen(sections, k)

\* C1: the chunks returned by process_lines, concatenated in order, are
\* exactly the concatenation of the lines, and no line is split between two
\* chunks.
C1_RoundTrip ==
    Packed => /\ Concat(sections) = Concat(lines)
              /\ NoLineSplit

C1_Witness ==
    /\ Packed
    /\ Len(sections) >= 2
    /\ \E k \in 1..Len(sections) : Cut(k) - Cut(k - 1) >= 2

\* C2: every chunk but the last is shorter than max_size, or is exactly one
\* line whose own length is at least max_size.
C2_ChunkBound ==
    Packed =>
        \A k \in 1..(Len(sections) - 1) :
            \/ Len(sections[k]) < max_size
            \/ /\ Cut(k) - Cut(k - 1) = 1
               /\ sections[k] = lines[Cut(k)]
               /\ Len(lines[Cut(k)]) >= max_size

C2_Witness ==
    /\ Packed
    /\ \E k \in 1..(Len(sections) - 1) : Len(sections[k]) >= max_size
    /\ \E k \in 1..(Len(sections) - 1) :
          sections[k] # <<>> /\ Len(sections[k]) < max_size

\* C3: process_lines never returns an empty chunk, and no chunk at all for an
\* empty sequence of lines.
C3_NoEmptyChunk ==
    Packed => /\ \A k \in 1..Len(sections) : sections[k] # <<>>
              /\ (lines = <<>> => sections = <<>>)

\* C4: convert_to_records returns floor(N/2) records for N chunks, record k
\* pairing chunks 2k and 2k+1 under the fixed instruction; the last chunk of
\* an odd N is in no record.
C4_Pairing ==
    pc = "records" =>
        LET N == Len(sections)
        IN  /\ Len(records) = N \div 2
            /\ (N <= 1 => records = <<>>)
            /\ \A k \in 0..(Len(records) - 1) :
                  records[k + 1] = [instruction |-> INSTRUCTION,
                                    input |-> sections[2 * k + 1],
                                    output |-> sections[2 * k + 2]]

C4_Witness ==
    /\ pc = "records"
    /\ Len(sections) = 5
    /\ Len(records) = 2
    /\ records[2].output = sections[4]

\* C10: the packing is greedy: a chunk is closed only when the line that
\* starts the next chunk would have brought it to max_size or beyond.
C10_Greedy ==
    Packed =>
        \A k \in 1..(Len(sections) - 1) :
            /\ Cut(k + 1) > Cut(k)
            /\ Len(sections[k]) + Len(lines[Cut(k) + 1]) >= max_size

C10_Witness ==
    /\ Packed
    /\ Len(sections) >= 3
    /\ \E k \in 1..(Len(sections) - 1) :
          /\ Cut(k) - Cut(k - 1) >= 2
          /\ Len(sections[k]) + Len(lines[Cut(k) + 1]) = max_size

-----------------------------------------------------------------------------
(* Properties of a run (Spec) *)

Terminal == {"ACTIVE", "FAILED"}

LastObserved == observed[Len(observed)]

\* the per-file record lists, in the order of the directory listing
PerFile == [i \in 1..Len(text_files) |-> process_single_file(listing[text_files[i]])]

\* C5: whatever the order in which the pool tasks complete, the records are
\* the per-file record lists concatenated in listing order; their number is
\* the sum of the per-file numbers, and every record pairs two adjacent
\* chunks of one file.
C5_FanInOrder ==
    pc \in {"write", "done"} =>
        /\ \A i \in 1..Len(listing) :
              (listing[i].name = TxtName) <=> (\E k \in 1..Len(text_files) : text_files[k] = i)
        /\ \A k \in 1..(Len(text_files) - 1) : text_files[k] < text_files[k + 1]
        /\ records = Concat(PerFile)
        /\ Len(records) = PrefixLen(PerFile, Len(PerFile))
        /\ \A r \in 1..Len(records) :
              \E i \in 1..Len(text_files) :
                  LET chunks == process_lines(Text(listing[text_files[i]].text), DefaultMaxSize)
                  IN  \E k \in 0..(Len(chunks) - 2) :
                          /\ k % 2 = 0
                          /\ records[r].input = chunks[k + 1]
                          /\ records[r].output = chunks[k + 2]

C5_Witness ==
    /\ pc \in {"write", "done"}
    /\ Len(completion) >= 2
    /\ completion[1] > completion[2]
    /\ results[completion[1]] # <<>>
    /\ results[completion[2]] # <<>>
    /\ results[completion[1]] # results[completion[2]]

\* C6: dataset.json is written at most once, and only after the uploaded file
\* was reported ACTIVE and every pool task completed successfully; when the
\* remote reports FAILED or a text file cannot be read, nothing is written and
\* a run that has ended has ended in an error.
C6_WriteOnlyOnSuccess ==
    /\ writes <= 1
    /\ (writes > 0 \/ artifact # NoArtifact) =>
          /\ observed # <<>>
          /\ LastObserved = "ACTIVE"
          /\ \A i \in DOMAIN task : task[i] = "done"
          /\ Len(task) = Len(text_files)
          /\ exc = "none"
    /\ (\/ \E n \in DOMAIN observed : observed[n] = "FAILED"
        \/ \E i \in DOMAIN listing :
              listing[i].name = TxtName /\ ~Readable(listing[i])) =>
          /\ writes = 0
          /\ artifact = NoArtifact
          /\ pc # "done"
          /\ (pc = "error" => exc # "none")

C6_Witness ==
    /\ pc = "done"
    /\ writes = 1
    /\ artifact = records
    /\ Len(records) >= 2
    /\ LastObserved = "ACTIVE"

\* C7: every error that ends the run was logged before it propagated.
C7_ErrorsLogged ==
    pc = "error" =>
        \E n \in DOMAIN logged :
            logged[n].msg \in {"Failed to upload file", "Error reading file"}

\* C8: one sleep follows each observation that is neither ACTIVE nor FAILED
\* and none follows the ACTIVE one: after k such observations and then
\* ACTIVE, exactly k sleeps have occurred and the loop has been left.
C8_SleepCount ==
    /\ sleeps = Cardinality({n \in DOMAIN observed : observed[n] \notin Terminal})
    /\ (observed # <<>> /\ LastObserved = "ACTIVE") =>
          /\ sleeps = Len(observed) - 1
          /\ \A n \in 1..(Len(observed) - 1) : observed[n] \notin Terminal
          /\ pc # "poll"

C8_Witness ==
    /\ observed = <<"PROCESSING", "PROCESSING", "ACTIVE">>
    /\ sleeps = 2
    /\ pc = "generate"

StillWaiting == \A n \in DOMAIN observed : observed[n] \notin Terminal

\* C9: the polling loop is left exactly when the remote reports ACTIVE or
\* FAILED: a terminal report ends it, nothing else does (no timeout); as long
\* as every report is a non-terminal one, generate_json_dataset has not
\* started and nothing has been written.
C9_NoExitWhileProcessing ==
    /\ [](StillWaiting =>
            /\ pc \notin {"generate", "map", "write", "done"}
            /\ (pc = "error" => exc \in {"KeyError", "UploadError"})
            /\ text_files = <<>>
            /\ writes = 0
            /\ artifact = NoArtifact)
    /\ [][pc = "poll" =>
            /\ Len(observed') = Len(observed) + 1
            /\ (pc' # "poll") <=> (observed'[Len(observed')] \in Terminal)]_vars

C9_Witness ==
    /\ pc = "poll"
    /\ Len(observed) = MaxPolls
    /\ StillWaiting
    /\ sleeps = MaxPolls
    /\ artifact = NoArtifact

====
